---------------------------- MODULE Spec2Model ----------------------------
(***************************************************************************)
(* Report store service of DMMS (server.js): a directory of PDF files      *)
(* listed with a date derived from each file name, uploaded as data-URL    *)
(* payloads and served back by name; and the TeamActions component        *)
(* (part_000), whose modal shows the history of the selected action.       *)
(*                                                                         *)
(* Strings are sequences of one-character strings, so that the regular     *)
(* expressions, String.split, path.join and the base64 decoding are        *)
(* computed character by character as the code computes them.              *)
(***************************************************************************)
EXTENDS Integers, Sequences, FiniteSets, TLC

VARIABLES
    fs,       \* the regular files: absolute path -> [bytes, mtime]
    dirs,     \* the directories: a set of absolute paths
    now,      \* the wall clock, in milliseconds
    resp,     \* the last request and the response to it
    uploaded, \* history: fileName -> the last successful upload under that fileName
    inflight, \* the upload requests received and not yet handled
    handled,  \* history: the uploads answered with success, in the order of their handling
    selectedAction, \* TeamActions: useState selectedAction (an action id, or Null)
    actionLogs,     \* TeamActions: useState actionLogs
    isLoadingLogs,  \* TeamActions: useState isLoadingLogs
    isModalOpen,    \* TeamActions: useState isModalOpen
    calls,          \* TeamActions: the getActionHistory calls awaited, action id -> how many
    updates         \* TeamActions: the action ids whose updateAction call is awaited

\* the upload requests under way and their history
uploads == <<inflight, handled>>

\* the state of the TeamActions component
modal == <<selectedAction, actionLogs, isLoadingLogs, isModalOpen, calls, updates>>

vars == <<fs, dirs, now, resp, uploaded, uploads, modal>>

----------------------------------------------------------------------------
(* Characters and strings *)

Digit == {"0", "1", "2", "3", "4", "5", "6", "7", "8", "9"}

Letter ==
    {"a", "b", "c", "d", "e", "f", "g", "h", "i", "j", "k", "l", "m",
     "n", "o", "p", "q", "r", "s", "t", "u", "v", "w", "x", "y", "z",
     "A", "B", "C", "D", "E", "F", "G", "H", "I", "J", "K", "L", "M",
     "N", "O", "P", "Q", "R", "S", "T", "U", "V", "W", "X", "Y", "Z"}

\* \w of a JavaScript regular expression
WordChar == Digit \cup Letter \cup {"_"}

\* \d{n} at position i of s
DigitsAt(s, i, n) ==
    /\ i >= 1
    /\ i + n - 1 <= Len(s)
    /\ \A k \in i .. (i + n - 1) : s[k] \in Digit

\* the character c at position i of s
CharAt(s, i, c) == i >= 1 /\ i <= Len(s) /\ s[i] = c

\* \b between positions i-1 and i of s: exactly one side is a word character
WordBoundary(s, i) ==
    LET before == i - 1 >= 1 /\ i - 1 <= Len(s) /\ s[i - 1] \in WordChar
        after  == i >= 1 /\ i <= Len(s) /\ s[i] \in WordChar
    IN  before # after

\* String.prototype.endsWith
EndsWith(s, suffix) ==
    /\ Len(s) >= Len(suffix)
    /\ SubSeq(s, Len(s) - Len(suffix) + 1, Len(s)) = suffix

DotPdf == <<".", "p", "d", "f">>

\* Number(yy) of a string of decimal digits
DigitValue(c) ==
    CASE c = "0" -> 0 [] c = "1" -> 1 [] c = "2" -> 2 [] c = "3" -> 3
      [] c = "4" -> 4 [] c = "5" -> 5 [] c = "6" -> 6 [] c = "7" -> 7
      [] c = "8" -> 8 [] c = "9" -> 9

RECURSIVE Number(_)
Number(s) ==
    IF s = <<>> THEN 0
    ELSE 10 * Number(SubSeq(s, 1, Len(s) - 1)) + DigitValue(s[Len(s)])

DigitChar(n) ==
    CASE n = 0 -> "0" [] n = 1 -> "1" [] n = 2 -> "2" [] n = 3 -> "3"
      [] n = 4 -> "4" [] n = 5 -> "5" [] n = 6 -> "6" [] n = 7 -> "7"
      [] n = 8 -> "8" [] n = 9 -> "9"

\* the decimal string of a non-negative number, as a template literal prints it
RECURSIVE NumberToString(_)
NumberToString(n) ==
    IF n < 10 THEN <<DigitChar(n)>>
    ELSE NumberToString(n \div 10) \o <<DigitChar(n % 10)>>

----------------------------------------------------------------------------
(* The date of a file name: server.js 53-65 *)

\* /\b(\d{4})-(\d{2})-(\d{2})\b/ matches at position i
YmdMatchesAt(s, i) ==
    /\ WordBoundary(s, i)
    /\ DigitsAt(s, i, 4)
    /\ CharAt(s, i + 4, "-")
    /\ DigitsAt(s, i + 5, 2)
    /\ CharAt(s, i + 7, "-")
    /\ DigitsAt(s, i + 8, 2)
    /\ WordBoundary(s, i + 10)

\* /\b(\d{2})-(\d{2})-(\d{2})\b/ matches at position i
DmyShortMatchesAt(s, i) ==
    /\ WordBoundary(s, i)
    /\ DigitsAt(s, i, 2)
    /\ CharAt(s, i + 2, "-")
    /\ DigitsAt(s, i + 3, 2)
    /\ CharAt(s, i + 5, "-")
    /\ DigitsAt(s, i + 6, 2)
    /\ WordBoundary(s, i + 8)

\* file.match(ymd): the capture groups <<y, m, d>> of the leftmost match, or <<>> for null
ymd(s) ==
    LET at == {i \in 1 .. Len(s) : YmdMatchesAt(s, i)}
    IN  IF at = {} THEN <<>>
        ELSE LET i == CHOOSE j \in at : \A k \in at : j <= k
             IN  <<SubSeq(s, i, i + 3), SubSeq(s, i + 5, i + 6), SubSeq(s, i + 8, i + 9)>>

\* file.match(dmyShort): the capture groups <<d, m, yy>> of the leftmost match, or <<>> for null
dmyShort(s) ==
    LET at == {i \in 1 .. Len(s) : DmyShortMatchesAt(s, i)}
    IN  IF at = {} THEN <<>>
        ELSE LET i == CHOOSE j \in at : \A k \in at : j <= k
             IN  <<SubSeq(s, i, i + 1), SubSeq(s, i + 3, i + 4), SubSeq(s, i + 6, i + 7)>>

\* mutant: the month and the day of the yyyy-mm-dd match change places
parsedDateFromFilenameSwapped(s) ==
    LET ymdMatch == ymd(s)
        dmyMatch == dmyShort(s)
    IN  IF ymdMatch # <<>>
        THEN ymdMatch[1] \o <<"-">> \o ymdMatch[3] \o <<"-">> \o ymdMatch[2]
        ELSE IF dmyMatch # <<>>
        THEN LET fullYear == 2000 + Number(dmyMatch[3])
             IN  NumberToString(fullYear) \o <<"-">> \o dmyMatch[2] \o <<"-">> \o dmyMatch[1]
        ELSE <<>>

\* mutant: the two-digit year is expanded into the century before
parsedDateFromFilenameLastCentury(s) ==
    LET ymdMatch == ymd(s)
        dmyMatch == dmyShort(s)
    IN  IF ymdMatch # <<>>
        THEN ymdMatch[1] \o <<"-">> \o ymdMatch[2] \o <<"-">> \o ymdMatch[3]
        ELSE IF dmyMatch # <<>>
        THEN LET fullYear == 1900 + Number(dmyMatch[3])
             IN  NumberToString(fullYear) \o <<"-">> \o dmyMatch[2] \o <<"-">> \o dmyMatch[1]
        ELSE <<>>

\* parsedDateFromFilename of the map callback: yyyy-mm-dd first, then dd-mm-yy
parsedDateFromFilename(s) ==
    LET ymdMatch == ymd(s)
        dmyMatch == dmyShort(s)
    IN  IF ymdMatch # <<>>
        THEN ymdMatch[1] \o <<"-">> \o ymdMatch[2] \o <<"-">> \o ymdMatch[3]
        ELSE IF dmyMatch # <<>>
        THEN LET fullYear == 2000 + Number(dmyMatch[3])
             IN  NumberToString(fullYear) \o <<"-">> \o dmyMatch[2] \o <<"-">> \o dmyMatch[1]
        ELSE <<>>

----------------------------------------------------------------------------
(* JavaScript numbers that may be NaN *)

NaN == [nan |-> TRUE, n |-> 0]

Num(n) == [nan |-> FALSE, n |-> n]

\* x - y
Minus(x, y) == IF x.nan \/ y.nan THEN NaN ELSE Num(x.n - y.n)

\* x !== 0
NotZero(x) == x.nan \/ x.n # 0

----------------------------------------------------------------------------
(* new Date(s).getTime() *)

\* the day number of year-month-day counted from 1970-01-01 (MakeDay of ECMAScript)
DaysFromCivil(y, m, d) ==
    LET yy  == IF m <= 2 THEN y - 1 ELSE y
        era == yy \div 400
        yoe == yy - era * 400
        mp  == IF m > 2 THEN m - 3 ELSE m + 9
        doy == (153 * mp + 2) \div 5 + d - 1
        doe == yoe * 365 + yoe \div 4 - yoe \div 100 + doy
    IN  era * 146097 + doe - 719468

\* new Date(date).getTime() of a date-only string YYYY-MM-DD, which is UTC midnight
\* of that day: a whole number of days, kept in days here (86400000 ms each); the
\* comparator only subtracts two of them and tests the result against 0.
\* A month outside 01..12 or a day outside 01..31 is an Invalid Date: NaN.
DateGetTime(date) ==
    LET y == Number(SubSeq(date, 1, 4))
        m == Number(SubSeq(date, 6, 7))
        d == Number(SubSeq(date, 9, 10))
    IN  IF m >= 1 /\ m <= 12 /\ d >= 1 /\ d <= 31
        THEN Num(DaysFromCivil(y, m, 1) + d - 1)
        ELSE NaN

\* stats.mtime.toISOString(): the timestamp with millisecond precision
ToISOString(t) == [iso |-> t]

\* new Date(lastModified).getTime() of such a string
IsoGetTime(s) == Num(s.iso)

----------------------------------------------------------------------------
(* The sort of the listing: server.js 79-87 *)

\* the comparator handed to Array.prototype.sort
comparator(a, b) ==
    LET aD == IF a.date # <<>> THEN DateGetTime(a.date) ELSE Num(0)
        bD == IF b.date # <<>> THEN DateGetTime(b.date) ELSE Num(0)
        byFilenameDate == Minus(bD, aD)
        aM == IsoGetTime(a.lastModified)
        bM == IsoGetTime(b.lastModified)
    IN  IF NotZero(byFilenameDate) THEN byFilenameDate ELSE Minus(bM, aM)

\* SortCompare of ECMAScript: a NaN from the comparator counts as +0
SortCompare(a, b) ==
    LET v == comparator(a, b)
    IN  IF v.nan THEN 0 ELSE v.n

\* ECMAScript's "consistent comparator" for the values being sorted
ConsistentComparator(S) ==
    LET v == [a \in S, b \in S |-> SortCompare(a, b)]
    IN  /\ \A a \in S : v[a, a] = 0
        /\ \A a, b \in S : (v[a, b] = 0) = (v[b, a] = 0)
        /\ \A a, b \in S : (v[a, b] < 0) = (v[b, a] > 0)
        /\ \A a, b, c \in S :
              /\ v[a, b] = 0 /\ v[b, c] = 0 => v[a, c] = 0
              /\ v[a, b] < 0 /\ v[b, c] < 0 => v[a, c] < 0
              /\ v[a, b] > 0 /\ v[b, c] > 0 => v[a, c] > 0

\* x put into the sorted sequence s behind every element that does not sort after it
RECURSIVE Insert(_, _)
Insert(s, x) ==
    IF s = <<>> THEN <<x>>
    ELSE IF SortCompare(s[Len(s)], x) <= 0 THEN Append(s, x)
    ELSE Append(Insert(SubSeq(s, 1, Len(s) - 1), x), s[Len(s)])

\* the stable sort of s
RECURSIVE StableSort(_)
StableSort(s) ==
    IF s = <<>> THEN <<>>
    ELSE Insert(StableSort(SubSeq(s, 1, Len(s) - 1)), s[Len(s)])

\* every order of the elements of s
Orders(s) ==
    {[i \in 1 .. Len(s) |-> s[p[i]]] : p \in Permutations(1 .. Len(s))}

\* Array.prototype.sort: the stable sort under a consistent comparator; under an
\* inconsistent one the order is implementation-defined, any order of the elements
SortOutcomes(s) ==
    IF ConsistentComparator({s[i] : i \in 1 .. Len(s)})
    THEN {StableSort(s)}
    ELSE Orders(s)

----------------------------------------------------------------------------
(* Strings and paths: String.prototype.split, path.join *)

\* s.split(c): the pieces of s between the occurrences of the character c
Split(s, c) ==
    LET cuts   == {i \in 1 .. Len(s) : s[i] = c}
        cut(k) == IF k = 0 THEN 0
                  ELSE IF k > Cardinality(cuts) THEN Len(s) + 1
                  ELSE CHOOSE i \in cuts : Cardinality({j \in cuts : j <= i}) = k
    IN  [k \in 1 .. Cardinality(cuts) + 1 |-> SubSeq(s, cut(k - 1) + 1, cut(k) - 1)]

\* the segments segs walked from the directory dir: "" and "." stay, ".." goes up
RECURSIVE Normalize(_, _)
Normalize(dir, segs) ==
    IF segs = <<>> THEN dir
    ELSE LET seg  == segs[1]
             rest == SubSeq(segs, 2, Len(segs))
         IN  IF seg = <<>> \/ seg = <<".">> THEN Normalize(dir, rest)
             ELSE IF seg = <<".", ".">>
             THEN Normalize(IF dir = <<>> THEN dir ELSE SubSeq(dir, 1, Len(dir) - 1), rest)
             ELSE Normalize(Append(dir, seg), rest)

\* path.join(dir, name): an absolute path is the sequence of its segments
PathJoin(dir, name) == Normalize(dir, Split(name, "/"))

\* process.cwd()
Cwd == << <<"a", "p", "p">> >>

\* REPORTS_FOLDER = path.join(process.cwd(), 'Dailyrepport')
REPORTS_FOLDER ==
    PathJoin(Cwd, <<"D", "a", "i", "l", "y", "r", "e", "p", "p", "o", "r", "t">>)

\* path.dirname and path.basename of an absolute path
Dirname(p) == IF p = <<>> THEN p ELSE SubSeq(p, 1, Len(p) - 1)

Basename(p) == IF p = <<>> THEN <<>> ELSE p[Len(p)]

----------------------------------------------------------------------------
(* Buffer.from(s, 'base64') *)

Base64Alphabet ==
    <<"A", "B", "C", "D", "E", "F", "G", "H", "I", "J", "K", "L", "M", "N", "O", "P",
      "Q", "R", "S", "T", "U", "V", "W", "X", "Y", "Z", "a", "b", "c", "d", "e", "f",
      "g", "h", "i", "j", "k", "l", "m", "n", "o", "p", "q", "r", "s", "t", "u", "v",
      "w", "x", "y", "z", "0", "1", "2", "3", "4", "5", "6", "7", "8", "9", "+", "/">>

\* the six bits of a character of the base64 alphabet ('-' and '_' are the URL-safe
\* spellings of '+' and '/'), or -1
Base64Value ==
    [c \in {Base64Alphabet[i] : i \in 1 .. 64} |->
        (CHOOSE i \in 1 .. 64 : Base64Alphabet[i] = c) - 1]

Unbase64(c) ==
    IF c = "-" THEN 62
    ELSE IF c = "_" THEN 63
    ELSE IF c \in DOMAIN Base64Value THEN Base64Value[c]
    ELSE -1

\* the sextets of s: characters outside the alphabet are skipped, '=' ends the data
RECURSIVE Sextets(_)
Sextets(s) ==
    IF s = <<>> \/ s[1] = "=" THEN <<>>
    ELSE LET rest == Sextets(SubSeq(s, 2, Len(s)))
         IN  IF Unbase64(s[1]) >= 0 THEN <<Unbase64(s[1])>> \o rest ELSE rest

\* the bytes of a sequence of sextets: 4 give 3 bytes, a rest of 3 gives 2, of 2 gives 1
RECURSIVE SextetsToBytes(_)
SextetsToBytes(q) ==
    IF Len(q) < 2 THEN <<>>
    ELSE LET b1 == q[1] * 4 + q[2] \div 16
         IN  IF Len(q) = 2 THEN <<b1>>
             ELSE LET b2 == (q[2] % 16) * 16 + q[3] \div 4
                  IN  IF Len(q) = 3 THEN <<b1, b2>>
                      ELSE <<b1, b2, (q[3] % 4) * 64 + q[4]>>
                               \o SextetsToBytes(SubSeq(q, 5, Len(q)))

\* mutant: only whole groups of four characters are decoded
BufferFromBase64WholeGroups(s) ==
    LET q == Sextets(s)
    IN  SextetsToBytes(SubSeq(q, 1, 4 * (Len(q) \div 4)))

\* Buffer.from(s, 'base64') of a string: never throws
BufferFromBase64(s) == SextetsToBytes(Sextets(s))

\* the base64 text of the bytes b (what a client puts behind the comma)
RECURSIVE Base64Encode(_)
Base64Encode(b) ==
    IF b = <<>> THEN <<>>
    ELSE IF Len(b) = 1
    THEN <<Base64Alphabet[b[1] \div 4 + 1], Base64Alphabet[(b[1] % 4) * 16 + 1], "=", "=">>
    ELSE IF Len(b) = 2
    THEN <<Base64Alphabet[b[1] \div 4 + 1],
           Base64Alphabet[(b[1] % 4) * 16 + b[2] \div 16 + 1],
           Base64Alphabet[(b[2] % 16) * 4 + 1], "=">>
    ELSE <<Base64Alphabet[b[1] \div 4 + 1],
           Base64Alphabet[(b[1] % 4) * 16 + b[2] \div 16 + 1],
           Base64Alphabet[(b[2] % 16) * 4 + b[3] \div 64 + 1],
           Base64Alphabet[(b[3] % 64) + 1]>> \o Base64Encode(SubSeq(b, 4, Len(b)))

----------------------------------------------------------------------------
(* The file system calls *)

\* mutant: the check always passes
ExistsSyncAlways(p) == TRUE

\* fs.existsSync(p)
ExistsSync(p) == p \in DOMAIN fs \/ p \in dirs

\* fs.readdirSync(dir): the names of the entries of dir, in the order the file
\* system hands them over, which is any order
EntriesOf(dir) ==
    {Basename(p) : p \in {q \in DOMAIN fs \cup dirs : q # <<>> /\ Dirname(q) = dir}}

ReaddirSync(dir) ==
    LET names == EntriesOf(dir)
        n     == Cardinality(names)
    IN  {f \in [1 .. n -> names] : \A i, j \in 1 .. n : f[i] = f[j] => i = j}

\* fs.statSync(p).mtime of a regular file
StatMtime(p) == fs[p].mtime

\* the error fs.writeFileSync(p, ...) throws, or "" when it writes
WriteError(p) ==
    IF p \in dirs THEN "EISDIR"
    ELSE IF Dirname(p) \in DOMAIN fs THEN "ENOTDIR"
    ELSE IF Dirname(p) \notin dirs THEN "ENOENT"
    ELSE ""

\* mutant: the bytes are written behind what the file holds
WriteFileSyncAppend(p, bytes, t) ==
    [q \in DOMAIN fs \cup {p} |->
        IF q = p
        THEN [bytes |-> (IF p \in DOMAIN fs THEN fs[p].bytes ELSE <<>>) \o bytes,
              mtime |-> t]
        ELSE fs[q]]

\* the files after fs.writeFileSync(p, bytes) at time t
WriteFileSync(p, bytes, t) ==
    [q \in DOMAIN fs \cup {p} |->
        IF q = p THEN [bytes |-> bytes, mtime |-> t] ELSE fs[q]]

----------------------------------------------------------------------------
(* GET /api/reports: server.js 27-100 *)

\* mutant: the suffix is compared without regard to case
isPdfIgnoreCase(name) ==
    EndsWith(name, DotPdf) \/ EndsWith(name, <<".", "P", "D", "F">>)

\* the filter callback
isPdf(name) == EndsWith(name, DotPdf)

\* mutant: the entries behind the first '.pdf' entry are lost
FilterFirstOnly(files) ==
    LET at == {i \in 1 .. Len(files) : EndsWith(files[i], DotPdf)}
    IN  IF at = {} THEN <<>>
        ELSE <<files[CHOOSE i \in at : \A j \in at : i <= j]>>

\* Array.prototype.filter
RECURSIVE Filter(_)
Filter(files) ==
    IF files = <<>> THEN <<>>
    ELSE LET rest == Filter(SubSeq(files, 2, Len(files)))
         IN  IF isPdf(files[1]) THEN <<files[1]>> \o rest ELSE rest

\* the map callback: the Report record of a directory entry
Report(name) ==
    LET filePath == PathJoin(REPORTS_FOLDER, name)
    IN  [id           |-> name,
         date         |-> parsedDateFromFilename(name),
         fileName     |-> name,
         filePath     |-> filePath,
         lastModified |-> ToISOString(StatMtime(filePath))]

\* Array.prototype.map
Map(files) == [i \in 1 .. Len(files) |-> Report(files[i])]

ListReports ==
    /\ IF ~ExistsSync(REPORTS_FOLDER)
       THEN resp' = [op |-> "list", status |-> 500, error |-> "Reports folder not found"]
       ELSE \E files \in ReaddirSync(REPORTS_FOLDER) :
                \E reports \in SortOutcomes(Map(Filter(files))) :
                    resp' = [op |-> "list", status |-> 200, body |-> reports]
    /\ UNCHANGED <<fs, dirs, now, uploaded, uploads, modal>>

----------------------------------------------------------------------------
(* POST /api/reports: server.js 103-118 *)

\* pdfData.split(',')[1], or <<"undefined">> when the array has no such element
\* (no string of the model is the one-element sequence <<"undefined">>)
Undefined == <<"undefined">>

\* mutant: the element before the comma
PayloadPartFirst(pdfData) == Split(pdfData, ",")[1]

PayloadPart(pdfData) ==
    LET parts == Split(pdfData, ",")
    IN  IF Len(parts) >= 2 THEN parts[2] ELSE Undefined

\* the history of uploads after an upload under fileName to filePath: a later upload
\* under another name that resolves to the same path marks the entry overwritten
Remember(fileName, filePath, entry) ==
    [f \in DOMAIN uploaded \cup {fileName} |->
        IF f = fileName THEN entry
        ELSE IF PathJoin(REPORTS_FOLDER, f) = filePath
        THEN [uploaded[f] EXCEPT !.overwritten = TRUE]
        ELSE uploaded[f]]

\* intended: what the client meant to send, [form, prefix, bytes] (history only)
UploadReport(fileName, pdfData, intended) ==
    LET filePath == PathJoin(REPORTS_FOLDER, fileName)
        part     == PayloadPart(pdfData)
        failure  == WriteError(filePath)
        req      == [fileName |-> fileName, pdfData |-> pdfData]
    IN  IF part = Undefined
        THEN \* Buffer.from(undefined, 'base64') throws a TypeError
             /\ resp' = [op |-> "upload", req |-> req, status |-> 500,
                         error |-> "Failed to save report", details |-> "TypeError"]
             /\ UNCHANGED <<fs, dirs, now, uploaded>>
        ELSE IF failure # ""
        THEN /\ resp' = [op |-> "upload", req |-> req, status |-> 500,
                         error |-> "Failed to save report", details |-> failure]
             /\ UNCHANGED <<fs, dirs, now, uploaded>>
        ELSE /\ fs' = WriteFileSync(filePath, BufferFromBase64(part), now)
             /\ resp' = [op |-> "upload", req |-> req, status |-> 200,
                         success |-> TRUE, filePath |-> filePath]
             /\ uploaded' = Remember(fileName, filePath,
                                     [intended EXCEPT !.overwritten = FALSE])
             /\ UNCHANGED <<dirs, now>>

----------------------------------------------------------------------------
(* GET /api/reports/:filename: server.js 121-136 *)

\* res.sendFile(filePath) with the default options: a directory is not served, and
\* neither is a missing file nor a file whose name begins with a dot (dotfiles are
\* ignored); these end in a 404 that Express writes, not this handler
SendFile(filePath) ==
    IF filePath \in dirs
    THEN [status |-> 404, error |-> "Cannot GET"]
    ELSE IF filePath \notin DOMAIN fs \/ Basename(filePath)[1] = "."
    THEN [status |-> 404, error |-> "NotFoundError"]
    ELSE [status |-> 200, body |-> fs[filePath].bytes]

RetrieveReport(filename) ==
    LET filePath == PathJoin(REPORTS_FOLDER, filename)
        req      == [filename |-> filename]
    IN  /\ resp' = IF ~ExistsSync(filePath)
                   THEN [op |-> "retrieve", req |-> req,
                         status |-> 404, error |-> "File not found"]
                   ELSE [op |-> "retrieve", req |-> req] @@ SendFile(filePath)
        /\ UNCHANGED <<fs, dirs, now, uploaded>>

----------------------------------------------------------------------------
(* Bounds and inputs *)

\* the clock stops at MaxClock milliseconds
MaxClock == 1

\* the report root holds at most MaxFiles files in the listing runs
MaxFiles == 3

\* file names of the upload and retrieval runs: plain, another spelling of the same
\* path, a dotfile, a missing directory, the root itself
StoreNames ==
    {<<"a", ".", "p", "d", "f">>,
     <<".", "/", "a", ".", "p", "d", "f">>,
     <<".", "h", ".", "p", "d", "f">>,
     <<"s", "/", "a", ".", "p", "d", "f">>,
     <<".">>}

RetrieveNames == StoreNames \cup {<<".", ".", "/", "x", ".", "p", "d", "f">>, <<"g", "h", "o", "s", "t", ".", "p", "d", "f">>}

\* prefixes of a data URL: the usual one and one that holds a comma
Prefixes ==
    {<<"d", "a", "t", "a", ":", ";", "b", "a", "s", "e", "6", "4">>,
     <<"d", "a", "t", "a", ":", "x", ",", "y", ";", "b", "a", "s", "e", "6", "4">>}

\* file contents X
Contents == {<<37, 80>>, <<37, 80, 68, 70>>}

\* '<prefix>,<base64 of X>'
DataUrl(prefix, X) == prefix \o <<",">> \o Base64Encode(X)

\* payloads with no comma
NoCommaPayloads ==
    {<<"J", "V", "B", "E", "R", "g", "=", "=">>,
     <<>>}

\* payloads whose part behind the comma is not base64
BadBase64Payloads ==
    {<<"d", "a", "t", "a", ":", ";", "b", "a", "s", "e", "6", "4", ",", "@", "@", "@", "@">>,
     <<"d", "a", "t", "a", ":", ";", "b", "a", "s", "e", "6", "4", ",", "J", "@", "V", "B">>}

Intended(prefix, X) ==
    [form |-> TRUE, prefix |-> prefix, bytes |-> X, overwritten |-> FALSE]

NotIntended ==
    [form |-> FALSE, prefix |-> <<>>, bytes |-> <<>>, overwritten |-> FALSE]

\* file names of the listing runs: dated both ways (two of them the same day), before
\* 1970, no calendar date (two of them the same), undated, and not a .pdf
ListNames ==
    {<<"R", " ", "2", "0", "2", "5", "-", "0", "9", "-", "1", "0", ".", "p", "d", "f">>,
     <<"R", " ", "2", "0", "2", "5", "-", "0", "9", "-", "0", "9", ".", "p", "d", "f">>,
     <<"B", " ", "1", "0", "-", "0", "9", "-", "2", "5", ".", "p", "d", "f">>,
     <<"R", " ", "1", "9", "6", "9", "-", "1", "2", "-", "3", "1", ".", "p", "d", "f">>,
     <<"R", " ", "2", "0", "2", "5", "-", "1", "3", "-", "4", "5", ".", "p", "d", "f">>,
     <<"B", " ", "4", "5", "-", "1", "3", "-", "2", "5", ".", "p", "d", "f">>,
     <<"n", "o", "t", "e", "s", ".", "p", "d", "f">>,
     <<"n", "o", "t", "e", "s", ".", "t", "x", "t">>,
     <<"X", ".", "P", "D", "F">>}

ListPayload == DataUrl(<<"d", "a", "t", "a", ":", ";", "b", "a", "s", "e", "6", "4">>, <<37, 80, 68, 70>>)

\* file names of the parsing runs: a date group (or none, or two) with any
\* neighbours on both sides
ParsePre == {<<>>,
             <<" ">>,
             <<"_">>,
             <<"x">>,
             <<"7">>,
             <<"-">>,
             <<"R", " ">>,
             <<".">>}

ParseCore ==
    {<<"2", "0", "2", "5", "-", "0", "9", "-", "1", "0">>,
     <<"1", "9", "6", "9", "-", "1", "2", "-", "3", "1">>,
     <<"2", "0", "2", "5", "-", "1", "3", "-", "4", "5">>,
     <<"1", "0", "-", "0", "9", "-", "2", "5">>,
     <<"3", "1", "-", "1", "2", "-", "0", "7">>,
     <<"n", "o", "t", "e", "s">>,
     <<"2", "0", "2", "5", "-", "9", "-", "1", "0">>,
     <<"1", "0", "-", "0", "9", "-", "2", "0", "2", "5">>,
     <<"2", "0", "2", "5", "-", "0", "9", "-", "1", "0", " ", "1", "1", "-", "0", "9", "-", "2", "5">>,
     <<"1", "0", "-", "0", "9", "-", "2", "5", " ", "2", "0", "2", "4", "-", "0", "1", "-", "0", "2">>,
     <<"2", "0", "2", "5", "-", "0", "9", "-", "1", "0", " ", "2", "0", "2", "4", "-", "0", "1", "-", "0", "2">>,
     <<"1", "0", "-", "0", "9", "-", "2", "5", " ", "1", "1", "-", "1", "0", "-", "2", "6">>}

ParsePost == {<<>>,
              <<" ">>,
              <<"_">>,
              <<"b">>,
              <<"2">>,
              <<"-", "1">>,
              <<" ", "v", "2">>}

ParseNames == {pre \o core \o post \o DotPdf :
                   pre \in ParsePre, core \in ParseCore, post \in ParsePost}

----------------------------------------------------------------------------
(* The specifications *)

NoRequest == [op |-> "none"]

\* no action is selected: useState<Action | null>(null)
Null == "null"

\* the action ids of the dashboard
ActionIds == {"action 1", "action 2", "action 3"}

\* no upload is under way, and the TeamActions component as it mounts
\* (part_000 21-24): nothing selected, no logs, not loading, the modal closed
InitIdle ==
    /\ inflight = {}
    /\ handled = <<>>
    /\ selectedAction = Null
    /\ actionLogs = <<>>
    /\ isLoadingLogs = FALSE
    /\ isModalOpen = FALSE
    /\ calls = [a \in ActionIds |-> 0]
    /\ updates = {}

\* after startup (server.js 21-24): the report root exists and is empty
Init ==
    /\ fs = <<>>
    /\ dirs = {<<>>, Cwd, REPORTS_FOLDER}
    /\ now = 0
    /\ resp = NoRequest
    /\ uploaded = <<>>
    /\ InitIdle

\* the upload payloads, each with what the client meant to send
Payloads ==
    {[pdfData |-> DataUrl(prefix, X), intended |-> Intended(prefix, X)] :
         prefix \in Prefixes, X \in Contents}
    \cup {[pdfData |-> pdfData, intended |-> NotIntended] :
              pdfData \in NoCommaPayloads \cup BadBase64Payloads}

Upload ==
    /\ \E fileName \in StoreNames, payload \in Payloads :
           UploadReport(fileName, payload.pdfData, payload.intended)
    /\ UNCHANGED <<uploads, modal>>

Retrieve ==
    /\ \E filename \in RetrieveNames : RetrieveReport(filename)
    /\ UNCHANGED <<uploads, modal>>

Next == Upload \/ Retrieve \/ ListReports

\* uploads, retrievals and listings in any order, within one millisecond
Spec == Init /\ [][Next]_vars

\* a millisecond passes
Tick ==
    /\ now < MaxClock
    /\ now' = now + 1
    /\ UNCHANGED <<fs, dirs, resp, uploaded, uploads, modal>>

\* the number of files in the report root
FilesInRoot == Cardinality({p \in DOMAIN fs : Dirname(p) = REPORTS_FOLDER})

UploadListed ==
    /\ \E fileName \in ListNames :
           /\ PathJoin(REPORTS_FOLDER, fileName) \in DOMAIN fs \/ FilesInRoot < MaxFiles
           /\ UploadReport(fileName, ListPayload, NotIntended)
    /\ UNCHANGED <<uploads, modal>>

NextList == UploadListed \/ Tick \/ ListReports

\* uploads of dated and undated files over time, and listings
SpecList == Init /\ [][NextList]_vars

\* the report root holds one file, put there before startup
InitParse ==
    /\ \E name \in ParseNames :
           fs = [p \in {PathJoin(REPORTS_FOLDER, name)} |-> [bytes |-> <<>>, mtime |-> 0]]
    /\ dirs = {<<>>, Cwd, REPORTS_FOLDER}
    /\ now = 0
    /\ resp = NoRequest
    /\ uploaded = <<>>
    /\ InitIdle

NextParse == ListReports

\* the listing of one file, for every file name of ParseNames
SpecParse == InitParse /\ [][NextParse]_vars

\* the path p lies below the directory dir
Below(p, dir) == Len(p) > Len(dir) /\ SubSeq(p, 1, Len(dir)) = dir

\* the report root is removed from outside, with all it holds: the case the check
\* of server.js 33 is there for
RemoveReportsFolder ==
    /\ REPORTS_FOLDER \in dirs
    /\ dirs' = {d \in dirs : d # REPORTS_FOLDER /\ ~Below(d, REPORTS_FOLDER)}
    /\ fs' = [p \in {q \in DOMAIN fs : ~Below(q, REPORTS_FOLDER)} |-> fs[p]]
    /\ UNCHANGED <<now, resp, uploaded, uploads, modal>>

\* the server starts again (server.js 21-24): a missing report root is created
Startup ==
    /\ dirs' = IF ~ExistsSync(REPORTS_FOLDER) THEN dirs \cup {REPORTS_FOLDER} ELSE dirs
    /\ UNCHANGED <<fs, now, resp, uploaded, uploads, modal>>

\* file names of the runs with a root that comes and goes
RootNames ==
    {<<"R", " ", "2", "0", "2", "5", "-", "0", "9", "-", "1", "0", ".", "p", "d", "f">>,
     <<"n", "o", "t", "e", "s", ".", "p", "d", "f">>,
     <<"n", "o", "t", "e", "s", ".", "t", "x", "t">>}

UploadRooted ==
    /\ \E fileName \in RootNames : UploadReport(fileName, ListPayload, NotIntended)
    /\ UNCHANGED <<uploads, modal>>

NextRoot == UploadRooted \/ ListReports \/ RemoveReportsFolder \/ Startup

\* uploads and listings while the report root is removed and created again
SpecRoot == Init /\ [][NextRoot]_vars

\* at most MaxUploads uploads are under way or answered with success
MaxUploads == 3

\* the file names of concurrent uploads: one name, and another spelling of its path
OverwriteNames ==
    {<<"a", ".", "p", "d", "f">>,
     <<".", "/", "a", ".", "p", "d", "f">>}

UsualPrefix == <<"d", "a", "t", "a", ":", ";", "b", "a", "s", "e", "6", "4">>

\* the payloads of concurrent uploads: two contents, and a payload that fails
OverwritePayloads ==
    {[pdfData |-> DataUrl(UsualPrefix, X), intended |-> Intended(UsualPrefix, X)] :
         X \in Contents}
    \cup {[pdfData |-> <<"J", "V", "B", "E", "R", "g", "=", "=">>,
            intended |-> NotIntended]}

\* a POST /api/reports arrives; express.json() (server.js 14) reads its body while
\* other requests arrive and are handled. Equal requests under way count once.
Receive ==
    /\ Len(handled) + Cardinality(inflight) < MaxUploads
    /\ \E fileName \in OverwriteNames, payload \in OverwritePayloads :
           inflight' = inflight \cup {[fileName |-> fileName,
                                        pdfData  |-> payload.pdfData,
                                        intended |-> payload.intended]}
    /\ UNCHANGED <<fs, dirs, now, resp, uploaded, handled, modal>>

\* the handler runs for one of the requests under way, in any order of the requests;
\* it is synchronous (writeFileSync), so it runs to its end before another handler
Handle ==
    /\ \E r \in inflight :
           /\ UploadReport(r.fileName, r.pdfData, r.intended)
           /\ inflight' = inflight \ {r}
           /\ handled' = IF resp'.status = 200
                          THEN Append(handled, [fileName |-> r.fileName,
                                                pdfData  |-> r.pdfData,
                                                bytes    |-> r.intended.bytes])
                          ELSE handled
    /\ UNCHANGED modal

NextOverwrite == Receive \/ Handle

\* uploads to one file that arrive together and are handled in any order
SpecOverwrite == Init /\ [][NextOverwrite]_vars

----------------------------------------------------------------------------
(* The TeamActions component: part_000 *)

\* at most MaxCalls getActionHistory calls are awaited at a time
MaxCalls == 2

\* the history getActionHistory(id) resolves with: the log items of that action
History(id) == <<[id |-> 1, actionId |-> id, eventType |-> "CREATED"]>>

\* the number of getActionHistory calls awaited
RECURSIVE Awaited(_)
Awaited(ids) ==
    IF ids = {} THEN 0
    ELSE LET a == CHOOSE x \in ids : TRUE
         IN  calls[a] + Awaited(ids \ {a})

\* the modal is on the screen: isModalOpen && selectedAction (part_000 332); its
\* overlay covers the action cards
ModalShown == isModalOpen /\ selectedAction # Null

\* handleActionClick up to its await: a click on the card of an action
handleActionClick(action) ==
    /\ ~ModalShown
    /\ Awaited(ActionIds) < MaxCalls
    /\ selectedAction' = action
    /\ isModalOpen' = TRUE
    /\ isLoadingLogs' = TRUE
    /\ calls' = [calls EXCEPT ![action] = @ + 1]
    /\ UNCHANGED <<actionLogs, updates>>

\* handleActionClick behind its await, getActionHistory resolved: try and finally
HistoryResolved(action) ==
    /\ calls[action] > 0
    /\ calls' = [calls EXCEPT ![action] = @ - 1]
    /\ actionLogs' = History(action)
    /\ isLoadingLogs' = FALSE
    /\ UNCHANGED <<selectedAction, isModalOpen, updates>>

\* handleActionClick behind its await, getActionHistory rejected: catch and finally
HistoryRejected(action) ==
    /\ calls[action] > 0
    /\ calls' = [calls EXCEPT ![action] = @ - 1]
    /\ actionLogs' = <<>>
    /\ isLoadingLogs' = FALSE
    /\ UNCHANGED <<selectedAction, isModalOpen, updates>>

\* closeModal: the X button of the modal
closeModal ==
    /\ ModalShown
    /\ isModalOpen' = FALSE
    /\ selectedAction' = Null
    /\ actionLogs' = <<>>
    /\ UNCHANGED <<isLoadingLogs, calls, updates>>

\* handleStatusUpdate up to its await: a status button of the modal
handleStatusUpdate ==
    /\ ModalShown
    /\ updates' = updates \cup {selectedAction}
    /\ UNCHANGED <<selectedAction, actionLogs, isLoadingLogs, isModalOpen, calls>>

\* handleStatusUpdate behind its await: updateAction resolved and the selectedAction
\* of the render that was clicked is set again with the new status, or it rejected
StatusUpdated(actionId) ==
    /\ actionId \in updates
    /\ updates' = updates \ {actionId}
    /\ \/ selectedAction' = actionId
       \/ selectedAction' = selectedAction
    /\ UNCHANGED <<actionLogs, isLoadingLogs, isModalOpen, calls>>

Click ==
    /\ (\E action \in ActionIds : handleActionClick(action))
    /\ UNCHANGED <<fs, dirs, now, resp, uploaded, uploads>>

Resolved ==
    /\ (\E action \in ActionIds : HistoryResolved(action))
    /\ UNCHANGED <<fs, dirs, now, resp, uploaded, uploads>>

Rejected ==
    /\ (\E action \in ActionIds : HistoryRejected(action))
    /\ UNCHANGED <<fs, dirs, now, resp, uploaded, uploads>>

Close ==
    /\ closeModal
    /\ UNCHANGED <<fs, dirs, now, resp, uploaded, uploads>>

StatusClick ==
    /\ handleStatusUpdate
    /\ UNCHANGED <<fs, dirs, now, resp, uploaded, uploads>>

StatusDone ==
    /\ (\E actionId \in ActionIds : StatusUpdated(actionId))
    /\ UNCHANGED <<fs, dirs, now, resp, uploaded, uploads>>

NextModal == Click \/ Resolved \/ Rejected \/ Close \/ StatusClick \/ StatusDone

\* clicks on action cards and in the modal, and the answers to their calls, in any order
SpecModal == Init /\ [][NextModal]_vars

----------------------------------------------------------------------------
(* Claims C1, C2: the date of a file name (checked under SpecParse) *)

\* the last response is a successful listing
Listed == resp.op = "list" /\ resp.status = 200

\* the digits and hyphens YYYY-MM-DD stand at position i of s
YmdGroupAt(s, i) ==
    /\ DigitsAt(s, i, 4) /\ CharAt(s, i + 4, "-")
    /\ DigitsAt(s, i + 5, 2) /\ CharAt(s, i + 7, "-")
    /\ DigitsAt(s, i + 8, 2)

\* the digits and hyphens DD-MM-YY stand at position i of s
DmyGroupAt(s, i) ==
    /\ DigitsAt(s, i, 2) /\ CharAt(s, i + 2, "-")
    /\ DigitsAt(s, i + 3, 2) /\ CharAt(s, i + 5, "-")
    /\ DigitsAt(s, i + 6, 2)

\* the n characters at position i of s have no ASCII letter, digit or underscore
\* right before them or right behind them
Delimited(s, i, n) ==
    /\ i = 1 \/ s[i - 1] \notin WordChar
    /\ i + n > Len(s) \/ s[i + n] \notin WordChar

\* the first delimited YYYY-MM-DD group of s stands at position i
FirstDelimitedYmd(s, i) ==
    /\ YmdGroupAt(s, i) /\ Delimited(s, i, 10)
    /\ \A j \in 1 .. (i - 1) : ~(YmdGroupAt(s, j) /\ Delimited(s, j, 10))

\* the first delimited DD-MM-YY group of s stands at position i
FirstDelimitedDmy(s, i) ==
    /\ DmyGroupAt(s, i) /\ Delimited(s, i, 8)
    /\ \A j \in 1 .. (i - 1) : ~(DmyGroupAt(s, j) /\ Delimited(s, j, 8))

\* 20YY-MM-DD of the group DD-MM-YY at position i of s
ExpandedDmy(s, i) ==
    <<"2", "0">> \o SubSeq(s, i + 6, i + 7) \o <<"-">> \o SubSeq(s, i + 3, i + 4)
        \o <<"-">> \o SubSeq(s, i, i + 1)

\* C1 as stated: a .pdf file name that holds a YYYY-MM-DD digit group anywhere,
\* whatever stands before and behind it, gets that group as its date.
C1_AnyYmdGroupIsTheDate ==
    Listed =>
        \A k \in 1 .. Len(resp.body) :
            LET s == resp.body[k].fileName
            IN  (\E i \in 1 .. Len(s) : YmdGroupAt(s, i)) =>
                    \E i \in 1 .. Len(s) :
                        YmdGroupAt(s, i) /\ resp.body[k].date = SubSeq(s, i, i + 9)

\* C1 amended: a .pdf file name that holds a YYYY-MM-DD digit group with no ASCII
\* letter, digit or underscore right before or right behind it gets the first such
\* group as its date, exactly.
C1_DelimitedYmdGroupIsTheDate ==
    Listed =>
        \A k \in 1 .. Len(resp.body) :
            LET s == resp.body[k].fileName
            IN  \A i \in 1 .. Len(s) :
                    FirstDelimitedYmd(s, i) => resp.body[k].date = SubSeq(s, i, i + 9)

\* a listed file whose name holds a delimited YYYY-MM-DD group behind other text
C1_Witness ==
    /\ Listed
    /\ \E k \in 1 .. Len(resp.body) :
           \E i \in 2 .. Len(resp.body[k].fileName) :
               /\ FirstDelimitedYmd(resp.body[k].fileName, i)
               /\ resp.body[k].date # <<>>

\* C2 as stated: a .pdf file name that holds a DD-MM-YY digit group anywhere and no
\* YYYY-MM-DD substring gets the date 20YY-MM-DD.
C2_AnyDmyGroupIsTheDate ==
    Listed =>
        \A k \in 1 .. Len(resp.body) :
            LET s == resp.body[k].fileName
            IN  /\ \E i \in 1 .. Len(s) : DmyGroupAt(s, i)
                /\ ~\E i \in 1 .. Len(s) : YmdGroupAt(s, i)
                => \E i \in 1 .. Len(s) :
                       DmyGroupAt(s, i) /\ resp.body[k].date = ExpandedDmy(s, i)

\* C2 amended: a .pdf file name that holds no YYYY-MM-DD substring and a DD-MM-YY digit
\* group with no ASCII letter, digit or underscore right before or right behind it
\* gets the date 20YY-MM-DD of the first such group.
C2_DelimitedDmyGroupIsTheDate ==
    Listed =>
        \A k \in 1 .. Len(resp.body) :
            LET s == resp.body[k].fileName
            IN  \A i \in 1 .. Len(s) :
                    /\ FirstDelimitedDmy(s, i)
                    /\ ~\E j \in 1 .. Len(s) : YmdGroupAt(s, j)
                    => resp.body[k].date = ExpandedDmy(s, i)

\* a listed file whose name holds a delimited DD-MM-YY group behind other text and no
\* YYYY-MM-DD substring
C2_Witness ==
    /\ Listed
    /\ \E k \in 1 .. Len(resp.body) :
           LET s == resp.body[k].fileName
           IN  /\ \E i \in 2 .. Len(s) : FirstDelimitedDmy(s, i)
               /\ ~\E j \in 1 .. Len(s) : YmdGroupAt(s, j)
               /\ resp.body[k].date # <<>>

----------------------------------------------------------------------------
(* Claims C3 to C6: the order of the listing (checked under SpecList) *)

\* the date string d is a real calendar date
DaysInMonth(y, m) ==
    IF m = 2
    THEN IF (y % 4 = 0 /\ y % 100 # 0) \/ y % 400 = 0 THEN 29 ELSE 28
    ELSE IF m \in {4, 6, 9, 11} THEN 30 ELSE 31

CalendarDate(d) ==
    LET y   == Number(SubSeq(d, 1, 4))
        m   == Number(SubSeq(d, 6, 7))
        day == Number(SubSeq(d, 9, 10))
    IN  m \in 1 .. 12 /\ day \in 1 .. DaysInMonth(y, m)

\* the calendar date d is later than the calendar date e: <<year, month, day>> of d
\* comes behind that of e
LaterDate(d, e) ==
    LET yd == Number(SubSeq(d, 1, 4))
        md == Number(SubSeq(d, 6, 7))
        dd == Number(SubSeq(d, 9, 10))
        ye == Number(SubSeq(e, 1, 4))
        me == Number(SubSeq(e, 6, 7))
        de == Number(SubSeq(e, 9, 10))
    IN  \/ yd > ye
        \/ yd = ye /\ md > me
        \/ yd = ye /\ md = me /\ dd > de

\* C3: a .pdf file whose name matches neither date pattern gets an empty date, and
\* in every listing each undated record comes behind every dated record, whatever the
\* digits of the dated names are.
C3_UndatedBehindEveryDated ==
    Listed =>
        /\ \A k \in 1 .. Len(resp.body) :
               LET s == resp.body[k].fileName
               IN  /\ ~\E i \in 1 .. Len(s) : FirstDelimitedYmd(s, i)
                   /\ ~\E i \in 1 .. Len(s) : FirstDelimitedDmy(s, i)
                   => resp.body[k].date = <<>>
        /\ \A i, j \in 1 .. Len(resp.body) :
               resp.body[i].date = <<>> /\ resp.body[j].date # <<>> => j < i

\* C4: of any two records of a listing whose dates are calendar dates, the one with
\* the later date comes first, whatever other files the root holds.
C4_NewestFirst ==
    Listed =>
        \A i, j \in 1 .. Len(resp.body) :
            LET a == resp.body[i].date
                b == resp.body[j].date
            IN  /\ a # <<>> /\ b # <<>>
                /\ CalendarDate(a) /\ CalendarDate(b)
                /\ LaterDate(a, b)
                => i < j

\* C5: of any two records of a listing with the same parsed date, or both with an
\* empty date, the one modified more recently comes first.
C5_TieBrokenByLastModified ==
    Listed =>
        \A i, j \in 1 .. Len(resp.body) :
            /\ resp.body[i].date = resp.body[j].date
            /\ resp.body[i].lastModified.iso > resp.body[j].lastModified.iso
            => i < j

\* C6: the listing depends only on the files of the root (names and modification
\* times): whatever order the directory enumeration hands the entries over in, the
\* listing of the same files is the sequence that was returned.
C6_ListingIndependentOfEnumeration ==
    Listed =>
        \A files \in ReaddirSync(REPORTS_FOLDER) :
            \A reports \in SortOutcomes(Map(Filter(files))) :
                reports = resp.body

----------------------------------------------------------------------------
(* Claims C7 to C10: upload and retrieval (checked under Spec) *)

\* the string s holds a comma
HasComma(s) == \E i \in 1 .. Len(s) : s[i] = ","

\* what stands behind the first comma of s
BehindFirstComma(s) ==
    LET first == CHOOSE i \in 1 .. Len(s) : s[i] = "," /\ \A j \in 1 .. (i - 1) : s[j] # ","
    IN  SubSeq(s, first + 1, Len(s))

\* s is base64 text: characters of the alphabet in groups of four, the last group
\* possibly ending in one or two '='
IsBase64(s) ==
    LET n    == Len(s)
        pads == IF n >= 2 /\ s[n] = "=" /\ s[n - 1] = "=" THEN 2
                ELSE IF n >= 1 /\ s[n] = "=" THEN 1 ELSE 0
    IN  /\ n % 4 = 0
        /\ \A i \in 1 .. (n - pads) : s[i] \in DOMAIN Base64Value

\* the last request was a retrieval of a file name under which a payload of the form
\* '<prefix>,<base64 of X>' was uploaded with success, and no later upload was made
\* under that file name
RetrievedUploaded ==
    /\ resp.op = "retrieve"
    /\ resp.req.filename \in DOMAIN uploaded
    /\ uploaded[resp.req.filename].form

\* C7 as stated: for every fileName and every payload '<prefix>,<base64 of X>', after
\* a successful upload and no later upload under the same fileName, the retrieval of
\* that fileName returns exactly the bytes X.
C7_RoundTripEveryNameAndPayload ==
    RetrievedUploaded =>
        resp.status = 200 /\ resp.body = uploaded[resp.req.filename].bytes

\* the conditions of the amended round trip: the prefix holds no comma, the file's own
\* name does not begin with a dot, and no later upload went to the same file under
\* another spelling of its path
PlainRoundTrip ==
    /\ RetrievedUploaded
    /\ ~HasComma(uploaded[resp.req.filename].prefix)
    /\ ~uploaded[resp.req.filename].overwritten
    /\ Basename(PathJoin(REPORTS_FOLDER, resp.req.filename))[1] # "."

\* C7 amended: for every payload '<prefix>,<base64 of X>' whose prefix holds no comma
\* and every fileName whose last path segment does not begin with a dot, after a
\* successful upload and no later upload to the same file (under this or any other
\* spelling of its path), the retrieval of that fileName returns exactly the bytes X.
C7_RoundTrip ==
    PlainRoundTrip =>
        resp.status = 200 /\ resp.body = uploaded[resp.req.filename].bytes

\* a retrieval that returns the bytes of the second upload under a file name, which
\* replaced the different bytes of an upload under another spelling of the path
C7_Witness ==
    /\ PlainRoundTrip
    /\ resp.status = 200
    /\ resp.body = <<37, 80, 68, 70>>
    /\ \E f \in DOMAIN uploaded :
           /\ f # resp.req.filename
           /\ uploaded[f].overwritten
           /\ uploaded[f].bytes # resp.body

\* the path of the last retrieval names nothing in the file system
RetrievedMissing ==
    /\ resp.op = "retrieve"
    /\ PathJoin(REPORTS_FOLDER, resp.req.filename) \notin DOMAIN fs
    /\ PathJoin(REPORTS_FOLDER, resp.req.filename) \notin dirs

\* C8: the retrieval of a file name that does not exist in the report root answers
\* 404 with the error 'File not found', in every state of the store, never 500.
C8_MissingFileIsNotFound ==
    RetrievedMissing => resp.status = 404 /\ resp.error = "File not found"

\* a retrieval of a missing file from a store that holds files
C8_Witness ==
    /\ RetrievedMissing
    /\ resp.status = 404
    /\ DOMAIN fs # {}

\* C9: an upload whose pdfData holds no comma answers 500 and leaves the store as it
\* was: no file is created and no file's content changes.
C9_NoCommaFailsAndWritesNothing ==
    [][(resp'.op = "upload" /\ ~HasComma(resp'.req.pdfData))
           => (resp'.status = 500 /\ fs' = fs /\ dirs' = dirs)]_vars

\* an upload without a comma, answered 500, under the name of a file that exists
\* with content
C9_Witness ==
    /\ resp.op = "upload"
    /\ ~HasComma(resp.req.pdfData)
    /\ resp.status = 500
    /\ PathJoin(REPORTS_FOLDER, resp.req.fileName) \in DOMAIN fs
    /\ fs[PathJoin(REPORTS_FOLDER, resp.req.fileName)].bytes # <<>>

\* C10: an upload whose pdfData holds, behind the comma, text that is not base64
\* answers 500, not success.
C10_BadBase64IsAServerError ==
    /\ resp.op = "upload"
    /\ HasComma(resp.req.pdfData)
    /\ ~IsBase64(BehindFirstComma(resp.req.pdfData))
    => resp.status = 500

----------------------------------------------------------------------------
(* Claims C11, C14: what a listing holds (checked under SpecList) *)

\* the last four characters of the name are '.pdf', in lower case
LowercasePdfSuffix(name) ==
    /\ Len(name) >= 4
    /\ name[Len(name) - 3] = "."
    /\ name[Len(name) - 2] = "p"
    /\ name[Len(name) - 1] = "d"
    /\ name[Len(name)] = "f"

\* the names of the files that stand directly in the report root
NamesInRoot == {Basename(p) : p \in {q \in DOMAIN fs : Dirname(q) = REPORTS_FOLDER}}

\* C11: no listing holds a record for a file whose name does not end with the exact
\* lower-case suffix '.pdf', after any sequence of uploads, also when such files
\* (notes.txt, X.PDF) were stored in the root.
C11_OnlyPdfListed ==
    Listed =>
        \A k \in 1 .. Len(resp.body) :
            /\ LowercasePdfSuffix(resp.body[k].fileName)
            /\ LowercasePdfSuffix(resp.body[k].id)

\* a listing with records, of a root that also holds a file that is no '.pdf'
C11_Witness ==
    /\ Listed
    /\ Len(resp.body) >= 1
    /\ \E name \in NamesInRoot : ~LowercasePdfSuffix(name)

\* C14: a successful listing holds exactly one record for each file that stands in
\* the report root now and whose name ends in '.pdf', and no other record; each
\* record has id = fileName = the file's name and filePath = <root>/<name>. So a file
\* uploaded with success under a '.pdf' name directly in the root is in the listing.
C14_ListingIsTheRootNow ==
    Listed =>
        /\ {resp.body[k].fileName : k \in 1 .. Len(resp.body)}
               = {name \in NamesInRoot : LowercasePdfSuffix(name)}
        /\ \A k, l \in 1 .. Len(resp.body) :
               resp.body[k].fileName = resp.body[l].fileName => k = l
        /\ \A k \in 1 .. Len(resp.body) :
               /\ resp.body[k].id = resp.body[k].fileName
               /\ resp.body[k].filePath = Append(REPORTS_FOLDER, resp.body[k].fileName)

\* a listing of a root that holds three files, uploaded at different times, one of
\* them no '.pdf'
C14_Witness ==
    /\ Listed
    /\ Len(resp.body) = 2
    /\ Cardinality(NamesInRoot) = 3
    /\ \E p, q \in DOMAIN fs : fs[p].mtime # fs[q].mtime

----------------------------------------------------------------------------
(* Claim C12: the listing of a missing report root (checked under SpecRoot) *)

\* the step is a listing answered while the report root is missing
ListedWithoutRoot ==
    /\ REPORTS_FOLDER \notin dirs
    /\ REPORTS_FOLDER \notin DOMAIN fs
    /\ resp' # resp
    /\ resp'.op = "list"

----------------------------------------------------------------------------
(* Claim C13: uploads to the same file (checked under SpecOverwrite) *)

\* the i-th successful upload is the last one that wrote its file
WroteLast(i) ==
    \A j \in (i + 1) .. Len(handled) :
        PathJoin(REPORTS_FOLDER, handled[j].fileName)
            # PathJoin(REPORTS_FOLDER, handled[i].fileName)

\* C13: once all the uploads have completed, in whatever order they were handled, the
\* file holds in full the bytes of the successful upload that wrote it last: no
\* mixture of two payloads, and not the bytes of an earlier upload.
C13_LastWriterWins ==
    inflight = {} =>
        \A i \in 1 .. Len(handled) :
            WroteLast(i) =>
                LET filePath == PathJoin(REPORTS_FOLDER, handled[i].fileName)
                IN  /\ filePath \in DOMAIN fs
                    /\ fs[filePath].bytes = handled[i].bytes

\* three successful uploads under one fileName have completed, the last with other
\* bytes than the one before it, and the file holds the bytes of the last
C13_Witness ==
    /\ inflight = {}
    /\ Len(handled) = 3
    /\ handled[1].fileName = handled[3].fileName
    /\ handled[2].fileName = handled[3].fileName
    /\ handled[2].bytes # handled[3].bytes
    /\ handled[1].bytes = handled[3].bytes
    /\ fs[PathJoin(REPORTS_FOLDER, handled[3].fileName)].bytes = handled[3].bytes

----------------------------------------------------------------------------
(* Claim C15: the history shown in the modal (checked under SpecModal) *)

\* C15: whenever isLoadingLogs is false, the actionLogs in the state are the history
\* fetched for the selected action, or empty; and they are empty whenever no action
\* is selected. So an answer that arrives after the modal was closed, or after
\* another action was clicked, does not become the history in the state.
C15_LogsBelongToSelection ==
    /\ selectedAction = Null => actionLogs = <<>>
    /\ (selectedAction # Null /\ ~isLoadingLogs) =>
           (actionLogs = <<>> \/ actionLogs = History(selectedAction))

=============================================================================
